---- MODULE Spec2Model ----
(***************************************************************************)
(* Model of the ingestion / recession-interval pipeline of                 *)
(* fred_service.py (FredDataService) over the three tables of models.py.   *)
(*                                                                         *)
(* Tables are sequences of rows in insertion order (the position is the    *)
(* autoincrement id).  A session (database.py: autoflush=False) is a       *)
(* working copy: rows loaded from the table and changed in place, plus the *)
(* list of added objects, which no query sees before the commit.           *)
(***************************************************************************)
EXTENDS Integers, Sequences, FiniteSets, TLC

\* ---------------------------------------------------------------- bounds
\* Observation dates of the indicator series are 1..NumDates (ascending
\* calendar order).
NumDates == 3
\* Observation dates in the ingestion specifications are 1..NumStoreDates.
NumStoreDates == 2
\* Observation dates in the batch specifications are 1..NumBatchDates.
NumBatchDates == 1
\* Calls are made while clock < MaxClock; every store_series_data call and
\* every iteration of the batch loop reads the clock once.
MaxClock == 2

Dates == 1..NumDates
StoreDates == 1..NumStoreDates
BatchDates == 1..NumBatchDates

\* pd.isna sentinel of a fetched value (fred_service.py:99).
NaN == -1
Values == {0, 1}
\* RecessionPeriod.end_date = None (fred_service.py:250).
Null == 0

\* settings.fred_series (config.py:19-42), cut to the indicator and one
\* other series; the order is the dict's insertion order.
series_config == << [key |-> "gdp", id |-> "GDP"],
                    [key |-> "recession", id |-> "USREC"] >>
SeriesIds == {series_config[i].id : i \in 1..Len(series_config)}

\* Calendar year of an observation date (datetime.year, fred_service.py:267):
\* one observation every other year, the first in 1979.
YearOf(d) == 1977 + 2 * d

VARIABLES
    market_data,      \* table market_data: Seq of [date, series_id, value, updated_at]
    recession_periods,\* table recession_periods: Seq of [start_date, end_date, name]
    data_fetch_log,   \* table data_fetch_log: Seq of [series_id, status, records_fetched, error]
    clock,            \* datetime.utcnow(), one tick per store_series_data call
    batch,            \* fetch_and_store_all_series: its position and its results
    last,             \* the call that ended last: what it was given, how it ended
    sessions          \* overlapping store_series_data calls: each caller's session

vars == <<market_data, recession_periods, data_fetch_log, clock, batch, last,
          sessions>>

\* The rows of the three tables (models.py); id is the position in the
\* table, created_at and fetch_date are written once and never read.
MarketDataRows ==
    [date : 1..(NumDates + 1), series_id : SeriesIds, value : Values,
     updated_at : Nat]

RecessionPeriodRows ==
    [start_date : 1..(NumDates + 1), end_date : 0..(NumDates + 1),
     name : [known : BOOLEAN, year : Nat]]

DataFetchLogRows ==
    [series_id : SeriesIds, status : {"success", "failed"},
     records_fetched : Nat, error : STRING]

\* ------------------------------------------------------------ sequences
\* The ascending sequence of the elements of a set of integers.
RECURSIVE SortedSeq(_)
SortedSeq(S) ==
    IF S = {} THEN << >>
    ELSE LET m == CHOOSE x \in S : \A y \in S : x <= y
         IN  <<m>> \o SortedSeq(S \ {m})

\* A fetched pandas Series: (date, value) pairs in ascending date order,
\* a value being a number or NaN (fred_service.py:44-51).
FetchedSeries(D) ==
    UNION { { [i \in 1..Cardinality(S) |->
                  [date |-> SortedSeq(S)[i], value |-> f[SortedSeq(S)[i]]]]
              : f \in [S -> Values \cup {NaN}] }
            : S \in SUBSET D }

\* A pandas Series handed to store_series_data by any caller: data.items()
\* yields its (date, value) pairs in index order, and an index may hold a
\* date more than once (fred_service.py:80, 97).
AnySeries(D, maxLen) ==
    UNION { [1..n -> [date : D, value : Values \cup {NaN}]] : n \in 0..maxLen }

HasNaN(data) == \E k \in 1..Len(data) : data[k].value = NaN

\* One observation per period from the first fetched date on.
Contiguous(data) ==
    \A k \in 1..(Len(data) - 1) : data[k + 1].date = data[k].date + 1

\* ------------------------------------------------------ the ORM session
\* db.commit(): the changed rows and the added objects reach the table.
Commit(work) == work.rows \o work.added

\* A rollback that is not made: the session's changes stay and reach the
\* table with the next commit.
RollbackKeeps(table, work) == work.rows \o work.added

\* db.rollback(): the table as it was when the transaction began.
Rollback(table, work) == table

\* A lookup that finds nothing: every item is inserted.
LookupNone(rows, date, series_id) == 0

\* A lookup whose filter leaves out the date.
LookupIgnoresDate(rows, date, series_id) ==
    LET hits == {i \in 1..Len(rows) : rows[i].series_id = series_id}
    IN  IF hits = {} THEN 0 ELSE CHOOSE i \in hits : \A j \in hits : i <= j

\* query(...).filter(...).first() on market_data: the id (position) of the
\* first row with that natural key, 0 for None (fred_service.py:103-106).
\* The query reads the table; objects added to the session and not yet
\* flushed are not in it (database.py:20, autoflush=False).
Lookup(rows, date, series_id) ==
    LET hits == {i \in 1..Len(rows) :
                    rows[i].date = date /\ rows[i].series_id = series_id}
    IN  IF hits = {} THEN 0 ELSE CHOOSE i \in hits : \A j \in hits : i <= j

\* ------------------------------------------------- store_series_data
NewWork(table) == [rows |-> table, added |-> << >>, count |-> 0]

\* The loop body without the pd.isna test: NaN is written like a value.
StoreItemNoSkip(work, series_id, item, now) ==
    LET i == Lookup(work.rows, item.date, series_id)
    IN  IF i # 0
        THEN [work EXCEPT !.rows[i].value = item.value,
                          !.rows[i].updated_at = now,
                          !.count = @ + 1]
        ELSE [work EXCEPT !.added = Append(@, [date |-> item.date,
                                               series_id |-> series_id,
                                               value |-> item.value,
                                               updated_at |-> now]),
                          !.count = @ + 1]

\* One iteration of the loop over data.items() (fred_service.py:97-122).
StoreItem(work, series_id, item, now) ==
    IF item.value = NaN THEN work
    ELSE LET i == Lookup(work.rows, item.date, series_id)
         IN  IF i # 0
             THEN [work EXCEPT !.rows[i].value = item.value,
                               !.rows[i].updated_at = now,
                               !.count = @ + 1]
             ELSE [work EXCEPT !.added = Append(@, [date |-> item.date,
                                                    series_id |-> series_id,
                                                    value |-> item.value,
                                                    updated_at |-> now]),
                               !.count = @ + 1]

\* The session after the first n items of data.
RECURSIVE StoreLoop(_, _, _, _, _)
StoreLoop(table, series_id, data, now, n) ==
    IF n = 0 THEN NewWork(table)
    ELSE StoreItem(StoreLoop(table, series_id, data, now, n - 1),
                   series_id, data[n], now)

\* Where a call can raise: 0 = nowhere, k = in the lookup or the write of
\* item k (an item that is not skipped), Len(data) + 1 = in db.commit().
StoreFailPoints(data) ==
    {0, Len(data) + 1} \cup {k \in 1..Len(data) : data[k].value # NaN}

\* A store that replaces the rows of the series by the fetched ones.
StoreSeriesDataReplaces(table, series_id, data, now, failAt) ==
    IF failAt = 0
    THEN LET others == SelectSeq(table, LAMBDA row : row.series_id # series_id)
             work == StoreLoop(<< >>, series_id, data, now, Len(data))
         IN  [table |-> others \o work.added, raised |-> FALSE,
              ret |-> work.count, writes |-> work.count]
    ELSE LET work == StoreLoop(table, series_id, data, now, failAt - 1)
         IN  [table |-> Rollback(table, work), raised |-> TRUE, ret |-> 0,
              writes |-> work.count]

\* store_series_data(db, series_id, series_name, data): the table it leaves,
\* whether it raised, the number it returns (fred_service.py:75-131).
StoreSeriesDataResult(table, series_id, data, now, failAt) ==
    IF failAt = 0
    THEN LET work == StoreLoop(table, series_id, data, now, Len(data))
         IN  [table |-> Commit(work), raised |-> FALSE, ret |-> work.count,
              writes |-> work.count]
    ELSE LET work == StoreLoop(table, series_id, data, now, failAt - 1)
         IN  [table |-> Rollback(table, work), raised |-> TRUE, ret |-> 0,
              writes |-> work.count]

StoreSeriesData(series_id, data, failAt) ==
    /\ batch.pc = "idle"
    /\ clock < MaxClock
    /\ LET r == StoreSeriesDataResult(market_data, series_id, data, clock, failAt)
       IN  /\ market_data' = r.table
           /\ last' = [op |-> "store", series_id |-> series_id,
                       data |-> IF r.raised THEN << >> ELSE data,
                       failed |-> failAt # 0,
                       raised |-> r.raised, ret |-> r.ret, writes |-> r.writes,
                       again |-> /\ last.op = "store" /\ ~last.raised
                                 /\ last.series_id = series_id
                                 /\ last.data = data]
    /\ clock' = clock + 1
    /\ UNCHANGED <<recession_periods, data_fetch_log, batch, sessions>>

\* --------------------------------------------- fetch_and_store_all_series
\* A success row that is left with the column default of records_fetched.
SuccessLogDefault(series_id, records_stored) ==
    [series_id |-> series_id, status |-> "success", records_fetched |-> 0,
     error |-> ""]

\* The DataFetchLog row of a stored series (fred_service.py:163-169).
SuccessLog(series_id, records_stored) ==
    [series_id |-> series_id, status |-> "success",
     records_fetched |-> records_stored, error |-> ""]

\* The DataFetchLog row of a failed series (fred_service.py:183-189).
FailedLog(series_id, error) ==
    [series_id |-> series_id, status |-> "failed", records_fetched |-> 0,
     error |-> error]

\* results[series_key] of a stored series (fred_service.py:173-177).
SuccessResult(series_key, records_stored, series_name) ==
    [key |-> series_key, status |-> "success", records |-> records_stored,
     series_name |-> series_name, error |-> ""]

\* results[series_key] of a failed series (fred_service.py:193-196).
FailedResult(series_key, error) ==
    [key |-> series_key, status |-> "failed", records |-> 0,
     series_name |-> "", error |-> error]

\* get_series_info and info.get('title', series_key): the title, or the
\* key when the metadata call failed and returned {} (fred_service.py:57-73,
\* 151-152).
SeriesName(series_key, infoOk) == IF infoOk THEN "title" ELSE series_key

\* The call begins: results = {} (fred_service.py:144).  start_ok says
\* whether start_date parses with "%Y-%m-%d".
FetchAndStoreAllBegin(start_ok) ==
    /\ batch.pc = "idle"
    /\ clock < MaxClock
    /\ batch' = [pc |-> "loop", idx |-> 1, start_ok |-> start_ok,
                 results |-> << >>, faults |-> {}]
    /\ UNCHANGED <<market_data, recession_periods, data_fetch_log, clock, last,
                   sessions>>

\* One iteration of the loop over series_config (fred_service.py:146-196).
\* infoOk: the metadata call answers; fetchOk, data: fetch_series_data
\* returns data or raises; failAt: where store_series_data raises;
\* commitOk: the commit of the success row goes through; failCommitOk: the
\* commit of the failed row goes through.  batch.faults keeps which calls of
\* the iteration raised.
ProcessSeries(infoOk, fetchOk, data, failAt, commitOk, failCommitOk) ==
    /\ batch.pc = "loop"
    /\ batch.idx <= Len(series_config)
    /\ LET series_key == series_config[batch.idx].key
           series_id == series_config[batch.idx].id
           series_name == SeriesName(series_key, infoOk)
           r == StoreSeriesDataResult(market_data, series_id, data, clock, failAt)
           stored == fetchOk /\ ~r.raised
           error == IF ~fetchOk THEN "fetch"
                    ELSE IF r.raised THEN "store"
                    ELSE IF ~batch.start_ok THEN "strptime"
                    ELSE IF ~commitOk THEN "commit"
                    ELSE ""
           \* the calls of this iteration that raised: "log" is the add and
           \* commit of the success row, "faillog" of the failed row
           faults == (IF infoOk THEN {} ELSE {"info"})
                     \cup (IF error \in {"fetch", "store"} THEN {error} ELSE {})
                     \cup (IF error = "commit" THEN {"log"} ELSE {})
                     \cup (IF error # "" /\ batch.start_ok /\ ~failCommitOk
                           THEN {"faillog"} ELSE {})
       IN  /\ market_data' = IF fetchOk THEN r.table ELSE market_data
           /\ last' = IF fetchOk
                      THEN [op |-> "store", series_id |-> series_id,
                            data |-> IF r.raised THEN << >> ELSE data,
                            failed |-> failAt # 0,
                            raised |-> r.raised, ret |-> r.ret,
                            writes |-> r.writes,
                            again |-> /\ last.op = "store" /\ ~last.raised
                                      /\ last.series_id = series_id
                                      /\ last.data = data]
                      ELSE last
           /\ IF error = ""
              THEN \* the series was stored and its success row committed
                   /\ data_fetch_log' = Append(data_fetch_log,
                                               SuccessLog(series_id, r.ret))
                   /\ batch' = [batch EXCEPT
                         !.idx = @ + 1,
                         !.results = Append(@, SuccessResult(series_key, r.ret,
                                                             series_name)),
                         !.faults = faults]
              ELSE IF batch.start_ok /\ failCommitOk
              THEN \* the except block wrote the failed row
                   /\ data_fetch_log' = Append(data_fetch_log,
                                               FailedLog(series_id, error))
                   /\ batch' = [batch EXCEPT
                         !.idx = @ + 1,
                         !.results = Append(@, FailedResult(series_key, error)),
                         !.faults = faults]
              ELSE \* the except block raised: the call ends with the error
                   /\ data_fetch_log' = data_fetch_log
                   /\ batch' = [batch EXCEPT !.pc = "raised", !.faults = faults]
    /\ clock' = clock + 1
    /\ UNCHANGED <<recession_periods, sessions>>

\* return results (fred_service.py:198), or the error leaves the call.
FetchAndStoreAllReturn ==
    /\ \/ batch.pc = "loop" /\ batch.idx > Len(series_config)
       \/ batch.pc = "raised"
    /\ batch' = [batch EXCEPT !.pc = "idle"]
    /\ last' = [op |-> "batch", series_id |-> "", data |-> << >>,
                failed |-> batch.pc = "raised", raised |-> batch.pc = "raised",
                ret |-> 0, writes |-> 0, again |-> FALSE]
    /\ UNCHANGED <<market_data, recession_periods, data_fetch_log, clock,
                   sessions>>

\* -------------------------------------------- process_recession_indicators
\* _get_recession_name (fred_service.py:263-283): the keys of
\* recession_names in dict order; the first key within one year wins.
recession_names == <<1980, 1981, 1990, 2001, 2007, 2020>>

Abs(x) == IF x < 0 THEN -x ELSE x

\* The lookup with a tolerance of two years.
GetRecessionNameWide(start_date) ==
    LET year == YearOf(start_date)
        hits == {i \in 1..Len(recession_names) :
                    Abs(year - recession_names[i]) <= 2}
    IN  IF hits # {}
        THEN [known |-> TRUE,
              year |-> recession_names[CHOOSE i \in hits : \A j \in hits : i <= j]]
        ELSE [known |-> FALSE, year |-> year]

\* The label: [known |-> TRUE, year |-> k] is recession_names[k],
\* [known |-> FALSE, year |-> y] is the generated f"{y} Recession".
GetRecessionName(start_date) ==
    LET year == YearOf(start_date)
        hits == {i \in 1..Len(recession_names) :
                    Abs(year - recession_names[i]) <= 1}
    IN  IF hits # {}
        THEN [known |-> TRUE,
              year |-> recession_names[CHOOSE i \in hits : \A j \in hits : i <= j]]
        ELSE [known |-> FALSE, year |-> year]

\* The query ordered by date descending.
RECURSIVE OrderByDateDesc(_, _)
OrderByDateDesc(rows, ids) ==
    IF ids = {} THEN << >>
    ELSE LET m == CHOOSE i \in ids :
                    \A j \in ids : \/ rows[i].date > rows[j].date
                                   \/ rows[i].date = rows[j].date /\ i <= j
         IN  <<rows[m]>> \o OrderByDateDesc(rows, ids \ {m})

\* query(MarketData).filter(series_id == 'USREC').order_by(date).all()
\* (fred_service.py:206-208): rows of the indicator, ascending by date, rows
\* of one date in id order.
RECURSIVE OrderByDate(_, _)
OrderByDate(rows, ids) ==
    IF ids = {} THEN << >>
    ELSE LET m == CHOOSE i \in ids :
                    \A j \in ids : \/ rows[i].date < rows[j].date
                                   \/ rows[i].date = rows[j].date /\ i <= j
         IN  <<rows[m]>> \o OrderByDate(rows, ids \ {m})

\* The query without order_by: rows in id order.
RecessionDataUnordered(table) ==
    SelectSeq(table, LAMBDA row : row.series_id = "USREC")

RecessionData(table) ==
    OrderByDate(table, {i \in 1..Len(table) : table[i].series_id = "USREC"})

\* An existence check that is not made.
ExistingPeriodNever(periods, start_date) == FALSE

\* query(RecessionPeriod).filter(start_date == ...).first()
\* (fred_service.py:226-228, 243-245): reads the table, not the session.
ExistingPeriod(periods, start_date) ==
    \E i \in 1..Len(periods) : periods[i].start_date = start_date

NewPeriod(start_date, end_date) ==
    [start_date |-> start_date, end_date |-> end_date,
     name |-> GetRecessionName(start_date)]

\* One iteration of the scan (fred_service.py:218-239).
ScanRecord(st, periods, record) ==
    IF record.value = 1 /\ ~st.in_recession
    THEN [st EXCEPT !.in_recession = TRUE, !.recession_start = record.date]
    ELSE IF record.value = 0 /\ st.in_recession
    THEN [in_recession |-> FALSE, recession_start |-> Null,
          added |-> IF ExistingPeriod(periods, st.recession_start)
                    THEN st.added
                    ELSE Append(st.added,
                                NewPeriod(st.recession_start, record.date))]
    ELSE st

RECURSIVE Scan(_, _, _)
Scan(periods, recs, n) ==
    IF n = 0
    THEN [in_recession |-> FALSE, recession_start |-> Null, added |-> << >>]
    ELSE ScanRecord(Scan(periods, recs, n - 1), periods, recs[n])

\* The ongoing branch without its existence check.
OngoingAlways(st, periods) ==
    IF st.in_recession /\ st.recession_start # Null
    THEN Append(st.added, NewPeriod(st.recession_start, Null))
    ELSE st.added

\* "Handle ongoing recession" (fred_service.py:241-253).
Ongoing(st, periods) ==
    IF st.in_recession /\ st.recession_start # Null
       /\ ~ExistingPeriod(periods, st.recession_start)
    THEN Append(st.added, NewPeriod(st.recession_start, Null))
    ELSE st.added

\* Where a call can raise: 0 = nowhere, k = in the lookup made at record k
\* (a record that closes a recession), Len + 1 = in the last lookup or in
\* db.commit().
DeriveFailPoints(recs, periods) ==
    {0, Len(recs) + 1}
    \cup {k \in 1..Len(recs) :
             recs[k].value = 0 /\ Scan(periods, recs, k - 1).in_recession}

\* The call with the empty result treated as an error that is raised.
ProcessResultNoDataRaises(table, periods, failAt) ==
    LET recs == RecessionData(table)
    IN  IF Len(recs) = 0
        THEN [periods |-> periods, raised |-> TRUE, nodata |-> TRUE,
              writes |-> 0]
        ELSE IF failAt = 0
        THEN LET added == Ongoing(Scan(periods, recs, Len(recs)), periods)
             IN  [periods |-> Commit([rows |-> periods, added |-> added]),
                  raised |-> FALSE, nodata |-> FALSE, writes |-> Len(added)]
        ELSE LET added == Scan(periods, recs, failAt - 1).added
             IN  [periods |-> Rollback(periods, [rows |-> periods,
                                                 added |-> added]),
                  raised |-> TRUE, nodata |-> FALSE, writes |-> Len(added)]

\* The call without the rollback: what was added before the failure
\* reaches the table.
ProcessResultKeeps(table, periods, failAt) ==
    LET recs == RecessionData(table)
    IN  IF Len(recs) = 0
        THEN [periods |-> periods, raised |-> FALSE, nodata |-> TRUE,
              writes |-> 0]
        ELSE IF failAt = 0
        THEN LET added == Ongoing(Scan(periods, recs, Len(recs)), periods)
             IN  [periods |-> Commit([rows |-> periods, added |-> added]),
                  raised |-> FALSE, nodata |-> FALSE, writes |-> Len(added)]
        ELSE LET added == Scan(periods, recs, failAt - 1).added
             IN  [periods |-> Commit([rows |-> periods, added |-> added]),
                  raised |-> TRUE, nodata |-> FALSE, writes |-> Len(added)]

\* process_recession_indicators(db): the interval table it leaves and how
\* it ended (fred_service.py:200-261).
ProcessResult(table, periods, failAt) ==
    LET recs == RecessionData(table)
    IN  IF Len(recs) = 0
        THEN [periods |-> periods, raised |-> FALSE, nodata |-> TRUE,
              writes |-> 0]
        ELSE IF failAt = 0
        THEN LET added == Ongoing(Scan(periods, recs, Len(recs)), periods)
             IN  [periods |-> Commit([rows |-> periods, added |-> added]),
                  raised |-> FALSE, nodata |-> FALSE, writes |-> Len(added)]
        ELSE LET added == Scan(periods, recs, failAt - 1).added
             IN  [periods |-> Rollback(periods, [rows |-> periods,
                                                 added |-> added]),
                  raised |-> TRUE, nodata |-> FALSE, writes |-> Len(added)]

ProcessRecessionIndicators(failAt) ==
    /\ batch.pc = "idle"
    /\ failAt \in DeriveFailPoints(RecessionData(market_data), recession_periods)
    /\ LET r == ProcessResult(market_data, recession_periods, failAt)
       IN  /\ recession_periods' = r.periods
           /\ last' = [op |-> IF r.nodata THEN "derive_nodata" ELSE "derive",
                       series_id |-> "USREC", data |-> << >>,
                       failed |-> failAt # 0 /\ ~r.nodata,
                       raised |-> r.raised, ret |-> 0, writes |-> r.writes,
                       again |-> last.op = "derive" /\ ~last.raised]
    /\ UNCHANGED <<market_data, data_fetch_log, clock, batch, sessions>>

\* ------------------------------- overlapping store_series_data calls
\* The scheduled update (scheduler.py:38) and a manual refresh
\* (main.py:162, database.py:39) each work in a session of their own.
Callers == {"scheduler", "refresh"}

IdleSession ==
    [pc |-> "idle", series_id |-> "", data |-> << >>, k |-> 0, now |-> 0,
     updates |-> << >>, added |-> << >>, count |-> 0]

\* store_series_data is entered (fred_service.py:94-96).
SessionBegin(p, series_id, data) ==
    /\ sessions[p].pc = "idle"
    /\ clock < MaxClock
    /\ sessions' = [sessions EXCEPT ![p] =
                       [pc |-> "loop", series_id |-> series_id, data |-> data,
                        k |-> 1, now |-> clock, updates |-> << >>,
                        added |-> << >>, count |-> 0]]
    /\ clock' = clock + 1
    /\ UNCHANGED <<market_data, recession_periods, data_fetch_log, batch, last>>

\* One iteration of the loop (fred_service.py:97-122) in the session of p:
\* the lookup reads the rows committed so far, by any session; the change
\* of a found row and the added object stay in the session.
SessionItem(p) ==
    /\ sessions[p].pc = "loop"
    /\ sessions[p].k <= Len(sessions[p].data)
    /\ LET s == sessions[p]
           item == s.data[s.k]
           i == Lookup(market_data, item.date, s.series_id)
       IN  sessions' = [sessions EXCEPT ![p] =
              IF item.value = NaN THEN [s EXCEPT !.k = @ + 1]
              ELSE IF i # 0
              THEN [s EXCEPT !.k = @ + 1, !.count = @ + 1,
                             !.updates = Append(@, [id |-> i,
                                                    value |-> item.value])]
              ELSE [s EXCEPT !.k = @ + 1, !.count = @ + 1,
                             !.added = Append(@, [date |-> item.date,
                                                  series_id |-> s.series_id,
                                                  value |-> item.value,
                                                  updated_at |-> s.now])]]
    /\ UNCHANGED <<market_data, recession_periods, data_fetch_log, clock,
                   batch, last>>

\* The flush of a commit: the UPDATEs of the changed rows by id, in order.
RECURSIVE ApplyUpdates(_, _, _, _)
ApplyUpdates(table, updates, now, n) ==
    IF n = 0 THEN table
    ELSE [ApplyUpdates(table, updates, now, n - 1) EXCEPT
             ![updates[n].id].value = updates[n].value,
             ![updates[n].id].updated_at = now]

\* db.commit() and return records_stored (fred_service.py:124-126).
SessionCommit(p) ==
    /\ sessions[p].pc = "loop"
    /\ sessions[p].k > Len(sessions[p].data)
    /\ LET s == sessions[p]
       IN  /\ market_data' = ApplyUpdates(market_data, s.updates, s.now,
                                          Len(s.updates)) \o s.added
           /\ last' = [op |-> "store", series_id |-> s.series_id,
                       data |-> s.data, failed |-> FALSE, raised |-> FALSE,
                       ret |-> s.count, writes |-> s.count, again |-> FALSE]
    /\ sessions' = [sessions EXCEPT ![p] = IdleSession]
    /\ UNCHANGED <<recession_periods, data_fetch_log, clock, batch>>

\* ------------------------------------------------- update_market_data
\* try: ... except Exception as e: logger.error(...) (scheduler.py:40,
\* 65-66): whether an exception raised inside leaves update_market_data.
UpdateMarketDataRaises(raised) == FALSE

\* The job calls fetch_and_store_all_series with a start_date it formats
\* itself (scheduler.py:45-48).
UpdateMarketDataBegin == FetchAndStoreAllBegin(TRUE)

\* The batch has ended: when it returned, process_recession_indicators runs
\* (scheduler.py:51); whatever was raised is caught (65-66) and the job
\* returns to the scheduler loop.
UpdateMarketDataEnd(failAt) ==
    /\ \/ batch.pc = "loop" /\ batch.idx > Len(series_config)
       \/ batch.pc = "raised" /\ failAt = 0
    /\ failAt \in DeriveFailPoints(RecessionData(market_data), recession_periods)
    /\ LET derived == batch.pc = "loop"
           r == ProcessResult(market_data, recession_periods, failAt)
           raised == ~derived \/ r.raised
       IN  /\ recession_periods' = IF derived THEN r.periods
                                   ELSE recession_periods
           /\ last' = [op |-> "job", series_id |-> "USREC", data |-> << >>,
                       failed |-> raised,
                       raised |-> UpdateMarketDataRaises(raised),
                       ret |-> 0, writes |-> IF derived THEN r.writes ELSE 0,
                       again |-> FALSE]
    /\ batch' = [batch EXCEPT !.pc = "idle"]
    /\ UNCHANGED <<market_data, data_fetch_log, clock, sessions>>

\* ------------------------------------------------------ specifications
Init ==
    /\ market_data = << >>
    /\ recession_periods = << >>
    /\ data_fetch_log = << >>
    /\ clock = 0
    /\ batch = [pc |-> "idle", idx |-> 0, start_ok |-> TRUE, results |-> << >>,
                faults |-> {}]
    /\ last = [op |-> "none", series_id |-> "", data |-> << >>,
               failed |-> FALSE, raised |-> FALSE, ret |-> 0, writes |-> 0,
               again |-> FALSE]
    /\ sessions = [p \in Callers |-> IdleSession]

\* Serialized ingestions of the indicator series and derivations.
IngestIndicator ==
    \E data \in FetchedSeries(Dates) :
       /\ ~HasNaN(data) /\ Contiguous(data)
       /\ StoreSeriesData("USREC", data, 0)

Derive == ProcessRecessionIndicators(0)

NextDerive == IngestIndicator \/ Derive

SpecDerive == Init /\ [][NextDerive]_vars

\* The indicator history only grows: every ingestion brings observations
\* later than all stored ones.
ExtendIndicator ==
    \E data \in FetchedSeries(Dates) :
       /\ ~HasNaN(data) /\ Len(data) > 0
       /\ \A i \in 1..Len(market_data) : market_data[i].date < data[1].date
       /\ StoreSeriesData("USREC", data, 0)

NextExtend == ExtendIndicator \/ Derive

SpecExtend == Init /\ [][NextExtend]_vars

\* Serialized store_series_data calls on two series, any of which may fail.
Store ==
    \E series_id \in SeriesIds, data \in FetchedSeries(StoreDates) :
       \E failAt \in StoreFailPoints(data) :
          StoreSeriesData(series_id, data, failAt)

NextStore == Store

SpecStore == Init /\ [][NextStore]_vars

\* Ingestion without faults: direct store_series_data calls and batches
\* whose calls all go through.
StoreOk ==
    \E series_id \in SeriesIds, data \in FetchedSeries(BatchDates) :
       StoreSeriesData(series_id, data, 0)

BatchBeginOk == FetchAndStoreAllBegin(TRUE)

BatchSeriesOk ==
    \E infoOk \in BOOLEAN, data \in FetchedSeries(BatchDates) :
       ProcessSeries(infoOk, TRUE, data, 0, TRUE, TRUE)

NextIngest ==
    StoreOk \/ BatchBeginOk \/ BatchSeriesOk \/ FetchAndStoreAllReturn

SpecIngest == Init /\ [][NextIngest]_vars

\* Batches in which any call may fail: the metadata call, the fetch, the
\* store, the parse of start_date, the commit of either audit row.
BatchBegin == \E start_ok \in BOOLEAN : FetchAndStoreAllBegin(start_ok)

BatchSeries ==
    \E infoOk, fetchOk, commitOk, failCommitOk \in BOOLEAN,
       data \in FetchedSeries(BatchDates) :
       \E failAt \in StoreFailPoints(data) :
          ProcessSeries(infoOk, fetchOk, data, failAt, commitOk, failCommitOk)

NextBatch == BatchBegin \/ BatchSeries \/ FetchAndStoreAllReturn

SpecBatch == Init /\ [][NextBatch]_vars

\* The scheduled job next to direct calls: a first load of the indicator
\* before any run of the job, derivations that may fail at any lookup or at
\* the commit, and runs of update_market_data in which a fetch or the write
\* of a failed audit row may fail.
LoadIndicator ==
    \E data \in FetchedSeries(StoreDates) :
       /\ ~HasNaN(data) /\ Contiguous(data)
       /\ market_data = << >> /\ data_fetch_log = << >>
       /\ StoreSeriesData("USREC", data, 0)

DeriveAny ==
    \E failAt \in 0..(NumStoreDates + 1) : ProcessRecessionIndicators(failAt)

JobSeries ==
    \E fetchOk, failCommitOk \in BOOLEAN, data \in FetchedSeries(BatchDates) :
       /\ ~HasNaN(data)
       /\ ProcessSeries(TRUE, fetchOk, data, 0, TRUE, failCommitOk)

JobEnd == \E failAt \in 0..(NumStoreDates + 1) : UpdateMarketDataEnd(failAt)

NextJob ==
    LoadIndicator \/ DeriveAny \/ UpdateMarketDataBegin \/ JobSeries \/ JobEnd

SpecJob == Init /\ [][NextJob]_vars

\* Two callers whose store_series_data calls overlap: each lookup, each
\* commit is a step of its own.
ConcurrentBegin ==
    \E p \in Callers, series_id \in SeriesIds,
       data \in FetchedSeries(StoreDates) : SessionBegin(p, series_id, data)

ConcurrentItem == \E p \in Callers : SessionItem(p)

ConcurrentCommit == \E p \in Callers : SessionCommit(p)

NextConcurrent == ConcurrentBegin \/ ConcurrentItem \/ ConcurrentCommit

SpecConcurrent == Init /\ [][NextConcurrent]_vars

\* Serialized store_series_data calls whose sequence may repeat a date.
StoreRepeated ==
    \E series_id \in SeriesIds, data \in AnySeries(StoreDates, NumStoreDates) :
       StoreSeriesData(series_id, data, 0)

NextRepeat == StoreRepeated

SpecRepeat == Init /\ [][NextRepeat]_vars

\* ------------------------------------------------------------ properties
TypeOK ==
    /\ \A i \in 1..Len(market_data) : market_data[i] \in MarketDataRows
    /\ \A i \in 1..Len(recession_periods) :
          recession_periods[i] \in RecessionPeriodRows
    /\ \A i \in 1..Len(data_fetch_log) : data_fetch_log[i] \in DataFetchLogRows
    /\ clock \in Nat
    /\ batch.pc \in {"idle", "loop", "raised"}
    /\ batch.faults \subseteq {"info", "fetch", "store", "log", "faillog"}
    /\ \A p \in Callers :
          /\ sessions[p].pc \in {"idle", "loop"}
          /\ \A i \in 1..Len(sessions[p].added) :
                sessions[p].added[i] \in MarketDataRows

\* The indicator history: the USREC observations by ascending date (the
\* k-th is the one with k - 1 earlier observations).
History ==
    LET ids == {i \in 1..Len(market_data) : market_data[i].series_id = "USREC"}
    IN  [k \in 1..Cardinality(ids) |->
            market_data[CHOOSE i \in ids :
                Cardinality({j \in ids : market_data[j].date
                                            < market_data[i].date}) = k - 1]]

\* The maximal runs of 1s of a 0/1 history with ascending dates: a run
\* starts at a 1 that is first or follows a 0, and ends at the first 0
\* after it (Null when the history ends inside the run).
RunStarts(recs) ==
    {i \in 1..Len(recs) :
        recs[i].value = 1 /\ (i = 1 \/ recs[i - 1].value = 0)}

RunEnd(recs, i) ==
    LET zeros == {j \in (i + 1)..Len(recs) : recs[j].value = 0}
    IN  IF zeros = {} THEN Null
        ELSE recs[CHOOSE j \in zeros : \A k \in zeros : j <= k].date

ExpectedIntervals(recs) ==
    {<<recs[i].date, RunEnd(recs, i)>> : i \in RunStarts(recs)}

Intervals(periods) ==
    {<<periods[i].start_date, periods[i].end_date>> : i \in 1..Len(periods)}

OpenPeriods == {i \in 1..Len(recession_periods) :
                   recession_periods[i].end_date = Null}

DerivedOk == last.op = "derive" /\ ~last.raised

\* C1: once a derivation has run on a history ending in a run of 1s
\* (leaving an open interval) and the history is then extended with the
\* closing 0 at D, the next derivation leaves the interval of that start
\* date with end_date = D, and only one interval of that start date.
\* Under SpecExtend: after every derivation each interval that starts a run
\* of the history ends where that run ends.
C1_ReDerivationCloses ==
    DerivedOk =>
        \A i \in 1..Len(recession_periods) :
            /\ \A k \in RunStarts(History) :
                  History[k].date = recession_periods[i].start_date
                     => recession_periods[i].end_date = RunEnd(History, k)
            /\ \A j \in 1..Len(recession_periods) :
                  recession_periods[j].start_date
                     = recession_periods[i].start_date => j = i

\* C2: at most one RecessionPeriod row has end_date = null.
C2_AtMostOneOpen == Cardinality(OpenPeriods) <= 1

\* C3: no two RecessionPeriod rows have the same start_date.
C3_StartDateUnique ==
    \A i, j \in 1..Len(recession_periods) :
        recession_periods[i].start_date = recession_periods[j].start_date
           => i = j

\* C3 witness: a derivation that followed an ingestion found the interval
\* of a run of the history already recorded and inserted nothing.
C3_Witness ==
    /\ DerivedOk /\ ~last.again /\ last.writes = 0
    /\ \E k \in RunStarts(History) :
          ExistingPeriod(recession_periods, History[k].date)
    /\ \E i \in 1..Len(market_data) : market_data[i].updated_at > 0

\* C4: from an empty interval table a derivation yields exactly one
\* interval per maximal run of 1s: it starts at the run's first 1 and ends
\* at the first 0 after the run, or is open when the history ends in the
\* run.
C4_OneIntervalPerRun ==
    [][(/\ last'.op \in {"derive", "derive_nodata"} /\ ~last'.raised
        /\ market_data' = market_data
        /\ recession_periods = << >>)
          => /\ Intervals(recession_periods') = ExpectedIntervals(History)
             /\ Len(recession_periods')
                   = Cardinality(ExpectedIntervals(History))]_vars

\* C4 witness: a derivation from an empty table wrote a closed interval and
\* an open one, the first starting at the first observation.
C4_Witness ==
    /\ DerivedOk /\ last.writes = Len(recession_periods)
    /\ Intervals(recession_periods) = {<<1, 2>>, <<3, Null>>}

\* C5: a second derivation right after a derivation, the observations
\* unchanged, leaves the interval table as the first one left it.
C5_DeriveIdempotent ==
    [][(/\ last.op \in {"derive", "derive_nodata"} /\ ~last.raised
        /\ last'.op \in {"derive", "derive_nodata"}
        /\ market_data' = market_data)
          => recession_periods' = recession_periods]_vars

\* C5 witness: a derivation ran right after a derivation, on a table that
\* holds a closed and an open interval.
C5_Witness ==
    /\ DerivedOk /\ last.again
    /\ OpenPeriods # {}
    /\ \E i \in 1..Len(recession_periods) :
          recession_periods[i].end_date # Null

Triples(table) ==
    {<<table[i].date, table[i].series_id, table[i].value>> : i \in 1..Len(table)}

RowsOf(table, date, series_id) ==
    {i \in 1..Len(table) :
        table[i].date = date /\ table[i].series_id = series_id}

\* The step is a store_series_data call that returned.
Stored == last'.op = "store" /\ clock' = clock + 1 /\ ~last'.raised

\* C6: a second store_series_data call with the series and the fetched
\* sequence of the call before it leaves the set of (date, series_id,
\* value) triples as the first call left it.
C6_StoreIdempotent ==
    [][(/\ last.op = "store" /\ ~last.raised
        /\ Stored
        /\ last'.series_id = last.series_id /\ last'.data = last.data)
          => Triples(market_data') = Triples(market_data)]_vars

\* C6 witness: the call before was the same call, and it wrote rows.
C6_Witness ==
    /\ last.op = "store" /\ ~last.raised /\ last.again
    /\ last.ret >= 1 /\ HasNaN(last.data)

\* C7: no two MarketData rows share (date, series_id).
C7_NaturalKeyUnique ==
    \A i, j \in 1..Len(market_data) :
        (/\ market_data[i].date = market_data[j].date
         /\ market_data[i].series_id = market_data[j].series_id) => i = j

\* C7 witness: the last call found a row of its series and updated it in
\* place (the row was written later than the row inserted after it).
C7_Witness ==
    /\ last.op = "store" /\ ~last.raised
    /\ \E i, j \in 1..Len(market_data) :
          /\ i < j
          /\ market_data[i].series_id = last.series_id
          /\ market_data[i].updated_at > market_data[j].updated_at

\* C8: a NaN at date D in the fetched sequence creates no row for
\* (D, series_id), leaves the rows of (D, series_id) as they were, value
\* and updated_at included, and is not counted in the returned number.
C8_MissingSkipped ==
    [][Stored =>
         /\ \A k \in 1..Len(last'.data) :
               last'.data[k].value = NaN =>
                  /\ RowsOf(market_data', last'.data[k].date, last'.series_id)
                        = RowsOf(market_data, last'.data[k].date, last'.series_id)
                  /\ \A i \in RowsOf(market_data, last'.data[k].date,
                                     last'.series_id) :
                        market_data'[i] = market_data[i]
         /\ last'.ret = Cardinality({k \in 1..Len(last'.data) :
                                        last'.data[k].value # NaN})]_vars

\* C8 witness: a call stored one date and skipped a NaN for a date that had
\* a row.
C8_Witness ==
    /\ last.op = "store" /\ ~last.raised /\ last.ret >= 1
    /\ \E k \in 1..Len(last.data) :
          /\ last.data[k].value = NaN
          /\ RowsOf(market_data, last.data[k].date, last.series_id) # {}

\* C10: a store_series_data call in which a lookup, a write or the commit
\* fails leaves the observation table as it was and raises.
C10_StoreAtomic ==
    [][(last'.op = "store" /\ clock' = clock + 1 /\ last'.failed)
          => market_data' = market_data /\ last'.raised]_vars

\* C10 witness: a call raised after it had changed a row and added one.
C10_Witness ==
    /\ last.op = "store" /\ last.failed /\ last.raised
    /\ last.writes >= 2
    /\ market_data # << >>

NonMissing(data) == Cardinality({k \in 1..Len(data) : data[k].value # NaN})

\* Rows the step inserted, and rows it changed in place.
Inserted == Len(market_data') - Len(market_data)
Updated == Cardinality({i \in 1..Len(market_data) :
                           market_data'[i] # market_data[i]})

\* The step is an iteration of the batch loop that ended in a 'success'
\* entry of results.
SeriesSucceeded ==
    /\ batch.pc = "loop" /\ batch'.pc = "loop" /\ batch'.idx = batch.idx + 1
    /\ batch'.results[Len(batch'.results)].status = "success"

\* C9: a store_series_data call that returns returns the number of rows it
\* inserted plus the number it updated, which is the number of non-missing
\* pairs of the fetched sequence; the batch writes that number as
\* records_fetched of the success audit row and as 'records' of the
\* series' result.
C9_ReturnsRowsTouched ==
    [][/\ Stored => /\ last'.ret = Inserted + Updated
                    /\ last'.ret = NonMissing(last'.data)
       /\ SeriesSucceeded =>
             /\ Stored
             /\ Len(data_fetch_log') = Len(data_fetch_log) + 1
             /\ data_fetch_log'[Len(data_fetch_log')]
                   = [series_id |-> last'.series_id, status |-> "success",
                      records_fetched |-> last'.ret, error |-> ""]
             /\ batch'.results[Len(batch'.results)].records = last'.ret]_vars

\* C9 witness: the second iteration of a batch updated the one stored row
\* and recorded one record; the first iteration stored nothing and recorded
\* none.
C9_Witness ==
    /\ batch.pc = "loop" /\ Len(batch.results) = 2
    /\ batch.results[1].status = "success" /\ batch.results[1].records = 0
    /\ batch.results[2].status = "success" /\ batch.results[2].records = 1
    /\ Len(data_fetch_log) = 2 /\ data_fetch_log[2].records_fetched = 1
    /\ last.op = "store" /\ last.ret = 1
    /\ Len(market_data) = 1 /\ market_data[1].updated_at = clock - 1
    /\ market_data[1].updated_at > 1

\* The step is an iteration of the loop of fetch_and_store_all_series: one
\* attempt to ingest the series at batch.idx.
SeriesAttempted == batch.pc = "loop" /\ batch.idx <= Len(series_config)

LastResult(b) == b.results[Len(b.results)]

\* C11: a failure while one series is processed (fetch, store, or any
\* other error, one caused by start_date included) is caught and recorded
\* as that series' entry of results, the next series is attempted, and
\* the call returns a map with one 'success' or 'failed' entry per
\* configured series.  Stated for the attempts in which the write of the
\* failed audit row does not itself fail.
C11_BatchIsolation ==
    [][/\ (SeriesAttempted /\ "faillog" \notin batch'.faults) =>
             /\ batch'.pc = "loop" /\ batch'.idx = batch.idx + 1
             /\ Len(batch'.results) = Len(batch.results) + 1
             /\ LastResult(batch').key = series_config[batch.idx].key
             /\ LastResult(batch').status \in {"success", "failed"}
       /\ (batch.pc = "loop" /\ batch'.pc = "idle") =>
             /\ ~last'.raised
             /\ Len(batch.results) = Len(series_config)
             /\ \A i \in 1..Len(series_config) :
                   batch.results[i].key = series_config[i].key]_vars

\* C12: every attempt of the batch, successful or failed, appends exactly
\* one DataFetchLog row of its series ('success' with the stored count, or
\* 'failed' with records_fetched = 0 and an error message), and no step
\* changes or removes an existing row.  Stated for the attempts in which
\* the write of the failed audit row does not itself fail.
C12_OneAuditRowPerAttempt ==
    [][/\ (SeriesAttempted /\ "faillog" \notin batch'.faults) =>
             /\ Len(data_fetch_log') = Len(data_fetch_log) + 1
             /\ LET row == data_fetch_log'[Len(data_fetch_log')]
                IN  /\ row.series_id = series_config[batch.idx].id
                    /\ \/ /\ row.status = "success"
                          /\ row.records_fetched = last'.ret
                       \/ /\ row.status = "failed"
                          /\ row.records_fetched = 0
                          /\ row.error # ""
       /\ Len(data_fetch_log') >= Len(data_fetch_log)
       /\ \A i \in 1..Len(data_fetch_log) :
             data_fetch_log'[i] = data_fetch_log[i]]_vars

\* C13: a batch called with a malformed start_date is rejected before a
\* fetch is issued and before an observation is written: none of its
\* attempts gets data back from the source, none changes market_data.
C13_InvalidRangeRejected ==
    [][(SeriesAttempted /\ ~batch.start_ok) =>
          /\ "fetch" \in batch'.faults
          /\ market_data' = market_data]_vars

\* C19: every call of a batch iteration that raised (the metadata call,
\* the fetch, the store, the write of an audit row) ends in a 'failed'
\* DataFetchLog row of the series, in a 'failed' entry of results, or in
\* an exception that leaves fetch_and_store_all_series.
C19_NoErrorDropped ==
    [][(SeriesAttempted /\ batch'.faults # {}) =>
          \/ /\ Len(data_fetch_log') = Len(data_fetch_log) + 1
             /\ data_fetch_log'[Len(data_fetch_log')].status = "failed"
             /\ data_fetch_log'[Len(data_fetch_log')].series_id
                   = series_config[batch.idx].id
          \/ /\ Len(batch'.results) = Len(batch.results) + 1
             /\ LastResult(batch').status = "failed"
          \/ batch'.pc = "raised"]_vars

\* C15: every RecessionPeriod row with an end_date has it strictly after
\* its start_date.
C15_EndAfterStart ==
    \A i \in 1..Len(recession_periods) :
        recession_periods[i].end_date # Null
           => recession_periods[i].end_date > recession_periods[i].start_date

\* C15 witness: a derivation closed an interval, and a later ingestion then
\* revised the observation at its start date to 0.
C15_Witness ==
    \E i \in 1..Len(recession_periods) :
        /\ recession_periods[i].end_date # Null
        /\ \E k \in 1..Len(History) :
              /\ History[k].date = recession_periods[i].start_date
              /\ History[k].value = 0

KnownYears == {recession_names[i] : i \in 1..Len(recession_names)}

GeneratedLabel(year) == [known |-> FALSE, year |-> year]

\* C17 as claimed: every interval whose start year is not a key of
\* recession_names has the generated label of that year.
C17_LabelFallback ==
    \A i \in 1..Len(recession_periods) :
        YearOf(recession_periods[i].start_date) \notin KnownYears
           => recession_periods[i].name
                 = GeneratedLabel(YearOf(recession_periods[i].start_date))

\* C17 amended: every interval whose start year is more than one year away
\* from every key of recession_names has the generated label of that year.
C17_LabelFallbackOutsideTolerance ==
    \A i \in 1..Len(recession_periods) :
        (\A k \in KnownYears :
            Abs(YearOf(recession_periods[i].start_date) - k) > 1)
           => recession_periods[i].name
                 = GeneratedLabel(YearOf(recession_periods[i].start_date))

\* C17 witness: a derivation inserted an interval that starts in 1983, two
\* years after the nearest key, with the label generated from 1983.
C17_Witness ==
    /\ DerivedOk /\ last.writes >= 1
    /\ \E i \in 1..Len(recession_periods) :
          /\ YearOf(recession_periods[i].start_date) = 1983
          /\ recession_periods[i].name = GeneratedLabel(1983)

\* The step is a direct call of process_recession_indicators.
DirectDerive ==
    /\ batch' = batch /\ clock' = clock
    /\ last'.op \in {"derive", "derive_nodata"}

\* The step is the end of update_market_data, and the end in which the
\* batch had returned and process_recession_indicators was called.
JobEndStep == batch.pc # "idle" /\ batch'.pc = "idle"
DeriveInJob == JobEndStep /\ batch.pc = "loop"

\* C14: with no observation of the indicator series,
\* process_recession_indicators returns without raising and leaves the
\* interval table, the observation table and the audit table as they were.
C14_NoIndicatorData ==
    [][((DirectDerive \/ DeriveInJob) /\ History = << >>) =>
          /\ ~last'.failed /\ ~last'.raised
          /\ recession_periods' = recession_periods
          /\ market_data' = market_data
          /\ data_fetch_log' = data_fetch_log]_vars

\* C14 witness: a derivation found no indicator observation in a store that
\* holds observations of another series and audit rows.
C14_Witness ==
    /\ last.op = "derive_nodata" /\ History = << >>
    /\ market_data # << >> /\ data_fetch_log # << >>

\* C16: a process_recession_indicators call commits all its inserts
\* together; when a lookup, a write or the commit fails, the interval table
\* is left as it was and the error is raised to the caller; the scheduled
\* job catches it and returns to the scheduler.
C16_DeriveAtomic ==
    [][/\ (DirectDerive \/ DeriveInJob) =>
             /\ last'.failed => recession_periods' = recession_periods
             /\ ~last'.failed =>
                   /\ Len(recession_periods')
                         = Len(recession_periods) + last'.writes
                   /\ \A i \in 1..Len(recession_periods) :
                         recession_periods'[i] = recession_periods[i]
       /\ DirectDerive => (last'.raised <=> last'.failed)
       /\ JobEndStep => ~last'.raised]_vars

\* C16 witness: the derivation of a scheduled run had added an interval
\* when it failed; the job caught the error, the table is empty as before.
C16_Witness ==
    /\ last.op = "job" /\ last.failed /\ ~last.raised
    /\ last.writes >= 1
    /\ recession_periods = << >> /\ data_fetch_log # << >>

\* C18: process_recession_indicators leaves MarketData and DataFetchLog as
\* they are; store_series_data and fetch_and_store_all_series leave
\* RecessionPeriod as it is; no step removes a MarketData row.
C18_TableOwnership ==
    [][/\ (DirectDerive \/ JobEndStep) =>
             /\ market_data' = market_data
             /\ data_fetch_log' = data_fetch_log
       /\ (clock' = clock + 1 \/ (batch' # batch /\ ~JobEndStep)) =>
             recession_periods' = recession_periods
       /\ Len(market_data') >= Len(market_data)
       /\ \A i \in 1..Len(market_data) :
             /\ market_data'[i].date = market_data[i].date
             /\ market_data'[i].series_id = market_data[i].series_id]_vars

\* C18 witness: a scheduled run stored observations of both series and
\* wrote audit rows, and its derivation then inserted an interval.
C18_Witness ==
    /\ last.op = "job" /\ ~last.failed /\ last.writes >= 1
    /\ recession_periods # << >> /\ Len(data_fetch_log) >= 2
    /\ \E i, j \in 1..Len(market_data) :
          /\ market_data[i].series_id = "GDP"
          /\ market_data[j].series_id = "USREC"
          /\ market_data[i].updated_at > 0 /\ market_data[j].updated_at > 0

\* C20: when store_series_data calls for the same (date, series_id)
\* overlap, the table still holds at most one row of that key, and after
\* a call has committed the row holds the value that call wrote.
C20_ConcurrentKeyUnique ==
    [][/\ \A i, j \in 1..Len(market_data') :
             (/\ market_data'[i].date = market_data'[j].date
              /\ market_data'[i].series_id = market_data'[j].series_id)
                => i = j
       /\ \A p \in Callers :
             (sessions[p].pc = "loop" /\ sessions'[p].pc = "idle") =>
                \A k \in 1..Len(sessions[p].data) :
                   sessions[p].data[k].value # NaN =>
                      \E i \in 1..Len(market_data') :
                         /\ market_data'[i].date = sessions[p].data[k].date
                         /\ market_data'[i].series_id = sessions[p].series_id
                         /\ market_data'[i].value
                               = sessions[p].data[k].value]_vars

\* C21: after ingestions that may revise stored indicator values, with
\* derivations in between, the interval table after a derivation holds
\* exactly the intervals a derivation from an empty table would produce
\* for the current history: same start dates, same end dates, no stale
\* interval.
C21_TracksRevisions ==
    DerivedOk =>
        /\ Intervals(recession_periods) = ExpectedIntervals(History)
        /\ Len(recession_periods) = Cardinality(ExpectedIntervals(History))

\* C22: when a key of recession_names lies within one year of the start
\* year of an interval, the interval has the label of a key closest to
\* that year; a start year that is itself a key has that key's label.
C22_ClosestKnownYear ==
    \A i \in 1..Len(recession_periods) :
        LET year == YearOf(recession_periods[i].start_date)
            name == recession_periods[i].name
        IN  /\ (\E k \in KnownYears : Abs(year - k) <= 1) =>
                  /\ name.known
                  /\ \A k \in KnownYears :
                        Abs(year - name.year) <= Abs(year - k)
            /\ year \in KnownYears =>
                  name = [known |-> TRUE, year |-> year]

\* C23: a store_series_data call whose sequence holds a date twice with
\* non-missing values, no row of (date, series_id) existing before, leaves
\* exactly one row of that key, holding the later value.
C23_LookupSeesPending ==
    [][Stored =>
         \A j, k \in 1..Len(last'.data) :
            (/\ j < k
             /\ last'.data[j].date = last'.data[k].date
             /\ last'.data[j].value # NaN /\ last'.data[k].value # NaN
             /\ \A m \in (k + 1)..Len(last'.data) :
                   last'.data[m].date = last'.data[k].date
                      => last'.data[m].value = NaN
             /\ RowsOf(market_data, last'.data[k].date, last'.series_id) = {})
               => /\ Cardinality(RowsOf(market_data', last'.data[k].date,
                                        last'.series_id)) = 1
                  /\ \A i \in RowsOf(market_data', last'.data[k].date,
                                      last'.series_id) :
                        market_data'[i].value = last'.data[k].value]_vars

====
